---- MODULE Spec2Model ----
(***************************************************************************)
(* A model of zarr.convenience: the flat-store copier copy_store, the      *)
(* recursive node copier copy / copy_all / _copy, and the progress sink    *)
(* _LogWriter they share.                                                   *)
(*                                                                         *)
(* Strings (store keys, path prefixes, regular expressions, node names)    *)
(* are sequences of one-character strings, so that startswith, slicing,    *)
(* concatenation, split and sorting are computed rather than assumed.      *)
(***************************************************************************)
EXTENDS Integers, Sequences, FiniteSets, TLC

VARIABLES
    pc,            \* position of the call: "call", "loop", "done", "raised"
    err,           \* the exception that left the call ("" while none)
    fn,            \* which entry point is running: "copy_store", "copy", "copy_all"
    log,           \* the `log` argument as the caller passed it
    logw,          \* the _LogWriter instance (log_func, log_file, needs_closing)
    opened,        \* number of handles io.open returned to _LogWriter
    closed,        \* number of close() calls made on the log handle
    emitted,       \* the lines passed to log(...), in call order
    sinkOut,       \* the lines that reached the callback or the file
    \* ---- copy_store ----
    args,          \* the arguments as the caller passed them
    store,         \* store handle -> (key -> value)
    store0,        \* the stores as they were when the call started
    source,        \* handle of the source store
    dest,          \* handle of the destination store (may be the source's)
    source_path,   \* source_path after normalisation (lines 461-464)
    dest_path,     \* dest_path after normalisation (lines 462-466)
    excludes,      \* the compiled exclude patterns, a sequence
    includes,      \* the compiled include patterns, a sequence
    listing,       \* sorted(source.keys()) as taken by the for statement
    idx,           \* index in listing of the next key of the loop
    reads,         \* source keys read, in order
    writes,        \* <<dest_key, value>> written to dest, in order
    \* ---- copy / copy_all ----
    src,           \* the source hierarchy: path -> node
    dst,           \* the destination hierarchy: path -> node
    dst0,          \* the destination hierarchy when the first call started
    modules,       \* [source, dest]: the __module__ of the two handles
    onConflict,    \* what dest's create_* does for a taken name: "raise", "reuse"
    stack,         \* the pending _copy calls, the next one first
    created,       \* the create_group / create_dataset calls that returned
    again,         \* TRUE once the same call has been issued a second time
    \* ---- LazyLoader ----
    self_grp,      \* the wrapped group: array name -> its contents now
    cache,         \* LazyLoader.cache
    fetched,       \* array name -> number of reads of the group that returned
    first,         \* array name -> what the first such read returned
    result         \* the last LazyLoader operation and what it returned

storeVars == <<args, store, store0, source, dest, source_path, dest_path, excludes,
               includes, listing, idx, reads, writes>>
logVars == <<log, logw, opened, closed, emitted, sinkOut>>
nodeVars == <<src, dst, dst0, modules, onConflict, stack, created, again>>
lazyVars == <<self_grp, cache, fetched, first, result>>
vars == <<pc, err, fn, logVars, storeVars, nodeVars, lazyVars>>

(***************************************************************************)
(* Strings                                                                 *)
(***************************************************************************)
Chars == {"/", "a", "b", "c"}

\* Code point of a character: Python compares str by code point.
Ord(c) == CASE c = "/" -> 47 [] c = "a" -> 97 [] c = "b" -> 98 [] c = "c" -> 99

StartsWith(s, p) == Len(p) <= Len(s) /\ SubSeq(s, 1, Len(p)) = p

\* s[n:]
DropFirst(s, n) == SubSeq(s, n + 1, Len(s))

\* str < str
StrLess(s, t) ==
    \E k \in 0..Len(s) :
        /\ k <= Len(t)
        /\ SubSeq(s, 1, k) = SubSeq(t, 1, k)
        /\ \/ k = Len(s) /\ k < Len(t)
           \/ k < Len(s) /\ k < Len(t) /\ Ord(s[k + 1]) < Ord(t[k + 1])

\* sorted(S) for a set of strings
RECURSIVE sorted(_)
sorted(S) ==
    IF S = {} THEN <<>>
    ELSE LET m == CHOOSE x \in S : \A y \in S \ {x} : StrLess(x, y)
         IN  <<m>> \o sorted(S \ {m})

\* prog.search(key) for a pattern that is a literal string
search(prog, key) ==
    \E i \in 1..(Len(key) - Len(prog) + 1) :
        SubSeq(key, i, i + Len(prog) - 1) = prog

\* zarr.util.normalize_storage_path: leading and trailing separators removed
RECURSIVE normalize_storage_path(_)
normalize_storage_path(p) ==
    IF p = <<>> THEN p
    ELSE IF Head(p) = "/" THEN normalize_storage_path(Tail(p))
    ELSE IF p[Len(p)] = "/" THEN normalize_storage_path(SubSeq(p, 1, Len(p) - 1))
    ELSE p

(***************************************************************************)
(* _LogWriter                                                              *)
(***************************************************************************)
\* The kinds of object a caller can pass as `log`: nothing, a callable, a
\* path string, an object with a write method, an object without one.
LogArgs == {"None", "callable", "path", "file", "other"}

NoLogWriter == [log_func |-> "None", log_file |-> "None", needs_closing |-> FALSE]

\* _LogWriter.__init__; openOk says whether io.open succeeds.  The result
\* carries the exception the constructor raises ("" when it returns).
LogWriter_init(l, openOk) ==
    CASE l = "None" ->
            [w |-> NoLogWriter, raises |-> "", opens |-> 0]
      [] l = "callable" ->
            [w |-> [NoLogWriter EXCEPT !.log_func = "callable"],
             raises |-> "", opens |-> 0]
      [] l = "path" ->
            IF openOk
            THEN [w |-> [NoLogWriter EXCEPT !.log_file = "opened",
                                            !.needs_closing = TRUE],
                  raises |-> "", opens |-> 1]
            ELSE [w |-> NoLogWriter, raises |-> "IOError", opens |-> 0]
      [] l = "file" ->
            [w |-> [NoLogWriter EXCEPT !.log_file = "file"],
             raises |-> "", opens |-> 0]
      [] OTHER ->
            [w |-> NoLogWriter, raises |-> "TypeError", opens |-> 0]

\* __exit__ as it would be without the needs_closing test
LogWriter_exit_any_file(w) ==
    IF w.log_file /= "None" THEN 1 ELSE 0

\* _LogWriter.__exit__: the number of close() calls it makes
LogWriter_exit(w) ==
    IF w.log_file /= "None" /\ w.needs_closing THEN 1 ELSE 0

\* _LogWriter.__call__: where a line goes
LogWriter_call(w) ==
    IF w.log_file /= "None" THEN "file"
    ELSE IF w.log_func /= "None" THEN "callable"
    ELSE "nowhere"

\* log(line) returning normally
Emit(line) ==
    /\ emitted' = Append(emitted, line)
    /\ sinkOut' = IF LogWriter_call(logw) = "nowhere" THEN sinkOut
                  ELSE Append(sinkOut, [to |-> LogWriter_call(logw), line |-> line])

\* the exit as it would be if __exit__ returned a true value: the exception
\* is suppressed and the call returns normally
RaiseInWith_suppressed(e) ==
    /\ pc' = "done"
    /\ err' = e
    /\ closed' = closed + LogWriter_exit(logw)

\* An exception leaves the `with _LogWriter(log)` block: __exit__ runs and,
\* returning None, lets the exception go on to the caller.
RaiseInWith(e) ==
    /\ pc' = "raised"
    /\ err' = e
    /\ closed' = closed + LogWriter_exit(logw)

\* `with _LogWriter(log) as log:` : the constructor, then __enter__
EnterWith(next) ==
    \E openOk \in BOOLEAN :
        LET r == LogWriter_init(log, openOk) IN
        /\ logw' = r.w
        /\ opened' = opened + r.opens
        /\ IF r.raises = "" THEN pc' = next /\ err' = err
           ELSE pc' = "raised" /\ err' = r.raises
        /\ UNCHANGED <<log, closed, emitted, sinkOut>>

(***************************************************************************)
(* copy_store                                                              *)
(***************************************************************************)
MaxKeys == 3

KeyUniverse == {<<"a">>, <<"b">>, <<"a", "/", "a">>, <<"a", "/", "b">>,
                <<"b", "/", "a">>}

SourcePaths == {<<>>, <<"/", "a", "/">>}
DestPaths == {<<>>, <<"b">>, <<"a", "/", "b", "/">>}

\* excludes / includes as passed: None, one pattern, or a sequence of patterns
NoPatterns == [kind |-> "None", val |-> <<>>]
ExcludeArgs == {NoPatterns,
                [kind |-> "str", val |-> <<"b">>],
                [kind |-> "list", val |-> << <<"a", "/", "a">>, <<"/", "b">> >>]}
IncludeArgs == {NoPatterns,
                [kind |-> "str", val |-> <<"a", "/">>],
                [kind |-> "list", val |-> << <<"/", "b">>, <<"b", "/">> >>]}

\* The value a source key holds at the start: distinct for distinct keys.
Value(k) == <<"v">> \o k
OldValue == <<"old">>

\* lines 463-466: a non-empty normalised path gets one trailing separator
WithSlash(p) == IF p /= <<>> THEN p \o <<"/">> ELSE p

\* lines 469-478: None becomes the empty list, one string a list of one
PatternList(arg) ==
    CASE arg.kind = "None" -> <<>>
      [] arg.kind = "str" -> <<arg.val>>
      [] OTHER -> arg.val

\* the filter as it would be without the includes loop
exclude_without_includes(source_key, excl, incl) ==
    \E i \in 1..Len(excl) : search(excl[i], source_key)

\* lines 490-499: the value of `exclude` when the filter has run
exclude(source_key, excl, incl) ==
    /\ \E i \in 1..Len(excl) : search(excl[i], source_key)
    /\ ~ \E j \in 1..Len(incl) : search(incl[j], source_key)

\* lines 487-501: the loop body reaches the copy for this key
Eligible(source_key, sp, excl, incl) ==
    /\ StartsWith(source_key, sp)
    /\ ~ exclude(source_key, excl, incl)

\* lines 504-505
DestKey(source_key, sp, dp) == dp \o DropFirst(source_key, Len(sp))

\* the assignment as it would be if a key already present were left alone
StoreSet_keeping_existing(st, h, k, v) ==
    [st EXCEPT ![h] = [x \in DOMAIN st[h] \cup {k} |->
                          IF x \in DOMAIN st[h] THEN st[h][x] ELSE v]]

\* dest[dest_key] = value on the store behind handle h
StoreSet(st, h, k, v) ==
    [st EXCEPT ![h] = [x \in DOMAIN st[h] \cup {k} |-> IF x = k THEN v ELSE st[h][x]]]

StoreInit ==
    /\ pc = "call" /\ err = "" /\ fn = "copy_store"
    /\ log \in LogArgs
    /\ logw = NoLogWriter
    /\ opened = 0 /\ closed = 0
    /\ emitted = <<>> /\ sinkOut = <<>>
    /\ args \in [source_path : SourcePaths, dest_path : DestPaths,
                 excludes : ExcludeArgs, includes : IncludeArgs]
    /\ source = 1
    /\ dest \in {1, 2}
    /\ \E S \in SUBSET KeyUniverse :
         /\ Cardinality(S) <= MaxKeys
         /\ \E D \in (IF dest = 2 THEN {{}, {<<"b", "/", "a">>}} ELSE {{}}) :
              store = <<[k \in S |-> Value(k)], [k \in D |-> OldValue]>>
    /\ store0 = store
    /\ source_path = <<>> /\ dest_path = <<>>
    /\ excludes = <<>> /\ includes = <<>>
    /\ listing = <<>> /\ idx = 1
    /\ reads = <<>> /\ writes = <<>>
    /\ src = <<>> /\ dst = <<>> /\ dst0 = <<>>
    /\ modules = <<>> /\ onConflict = "raise"
    /\ stack = <<>> /\ created = <<>> /\ again = FALSE
    /\ self_grp = <<>> /\ cache = <<>> /\ fetched = <<>> /\ first = <<>>
    /\ result = [op |-> "none"]

\* the for statement as it would be over the store's keys as they are now
loop_keys_live(taken, current) == sorted(DOMAIN current)

\* line 484: the for statement iterates the list sorted() built, whatever
\* the store holds by now
loop_keys(taken, current) == taken

\* lines 460-481: normalise the arguments, construct and enter the _LogWriter
copy_store_setup ==
    /\ pc = "call" /\ fn = "copy_store"
    /\ UNCHANGED lazyVars
    /\ source_path' = WithSlash(normalize_storage_path(args.source_path))
    /\ dest_path' = WithSlash(normalize_storage_path(args.dest_path))
    /\ excludes' = PatternList(args.excludes)
    /\ includes' = PatternList(args.includes)
    /\ EnterWith("keys")
    /\ UNCHANGED <<fn, args, store, store0, source, dest, listing, idx, reads,
                   writes, nodeVars>>

\* line 484: sorted(source.keys()), evaluated once by the for statement
copy_store_keys ==
    /\ pc = "keys" /\ fn = "copy_store"
    /\ UNCHANGED lazyVars
    /\ \/ /\ listing' = sorted(DOMAIN store[source])
          /\ pc' = "loop"
          /\ UNCHANGED <<err, closed>>
       \/ /\ RaiseInWith("IOError")
          /\ UNCHANGED listing
    /\ UNCHANGED <<fn, log, logw, opened, emitted, sinkOut, args, store, store0,
                   source, dest, source_path, dest_path, excludes, includes, idx,
                   reads, writes, nodeVars>>

\* lines 484-509: one iteration of the loop
copy_store_iter ==
    /\ pc = "loop" /\ fn = "copy_store"
    /\ UNCHANGED lazyVars
    /\ idx <= Len(loop_keys(listing, store[source]))
    /\ LET source_key == loop_keys(listing, store[source])[idx]
           dest_key == DestKey(source_key, source_path, dest_path)
       IN
       IF ~ Eligible(source_key, source_path, excludes, includes)
       THEN /\ idx' = idx + 1
            /\ UNCHANGED <<pc, err, closed, emitted, sinkOut, store, reads, writes>>
       ELSE \/ \* log(...) raises: nothing read, nothing written
               /\ LogWriter_call(logw) /= "nowhere"
               /\ RaiseInWith("LogError")
               /\ UNCHANGED <<idx, emitted, sinkOut, store, reads, writes>>
            \/ \* source[source_key] raises
               /\ Emit(<<source_key, dest_key>>)
               /\ RaiseInWith("ReadError")
               /\ UNCHANGED <<idx, store, reads, writes>>
            \/ \* dest[dest_key] = ... raises
               /\ Emit(<<source_key, dest_key>>)
               /\ reads' = Append(reads, source_key)
               /\ RaiseInWith("WriteError")
               /\ UNCHANGED <<idx, store, writes>>
            \/ /\ Emit(<<source_key, dest_key>>)
               /\ reads' = Append(reads, source_key)
               /\ writes' = Append(writes, <<dest_key, store[source][source_key]>>)
               /\ store' = StoreSet(store, dest, dest_key, store[source][source_key])
               /\ idx' = idx + 1
               /\ UNCHANGED <<pc, err, closed>>
    /\ UNCHANGED <<fn, log, logw, opened, args, store0, source, dest, source_path,
                   dest_path, excludes, includes, listing, nodeVars>>

\* the loop is exhausted: the with block is left normally, __exit__ runs
copy_store_return ==
    /\ pc = "loop" /\ fn = "copy_store"
    /\ UNCHANGED lazyVars
    /\ idx > Len(loop_keys(listing, store[source]))
    /\ pc' = "done"
    /\ closed' = closed + LogWriter_exit(logw)
    /\ UNCHANGED <<err, fn, log, logw, opened, emitted, sinkOut, storeVars, nodeVars>>

StoreNext ==
    \/ copy_store_setup
    \/ copy_store_keys
    \/ copy_store_iter
    \/ copy_store_return

SpecStore == StoreInit /\ [][StoreNext]_vars

(***************************************************************************)
(* Hierarchies: a path is a sequence of names, a name is a string.         *)
(***************************************************************************)
MaxNodes == 3

A == <<"a">>
B == <<"b">>
C == <<"c">>

PathUniverse == {<<A>>, <<B>>, <<A, A>>, <<A, B>>, <<A, A, A>>}

Parent(p) == SubSeq(p, 1, Len(p) - 1)

EmptyMap == <<>>

\* dict.update: every entry of other is set, the rest is kept
Update(d, other) ==
    [k \in DOMAIN d \cup DOMAIN other |-> IF k \in DOMAIN other THEN other[k] ELSE d[k]]

\* setdefault as it would be as a plain assignment
SetDefault_overwrites(d, k, v) == Update(d, k :> v)

\* dict.setdefault
SetDefault(d, k, v) == IF k \in DOMAIN d THEN d ELSE Update(d, k :> v)

GroupAttrs == ("u" :> "s") @@ ("v" :> "s")
ArrayAttrs == ("u" :> "s")
PriorAttrs == ("u" :> "d") @@ ("w" :> "d")

\* A node of the source hierarchy.  An array's chunks differ by name, so
\* that two arrays of one hierarchy can differ in them.
SourceNode(p, kind) ==
    IF kind = "group"
    THEN [kind |-> "group", attrs |-> GroupAttrs, chunks |-> "", compressor |-> "",
          compression |-> "", compression_opts |-> "", shuffle |-> "", data |-> <<>>]
    ELSE [kind |-> "array", attrs |-> ArrayAttrs,
          chunks |-> IF p[Len(p)] = A THEN "c1" ELSE "c2",
          compressor |-> "blosc",
          compression |-> "szip", compression_opts |-> "4", shuffle |-> "False",
          data |-> <<"data">> \o p]

\* The source hierarchies: a root group over at most MaxNodes nodes.
Trees ==
    UNION { { [p \in S \cup {<<>>} |->
                 SourceNode(p, IF p = <<>> THEN "group" ELSE kind[p])] :
              kind \in { k \in [S -> {"group", "array"}] :
                           \A p \in S : (\E q \in S : Parent(q) = p) => k[p] = "group" } } :
            S \in { T \in SUBSET PathUniverse :
                      /\ Cardinality(T) <= MaxNodes
                      /\ \A p \in T : Len(p) > 1 => Parent(p) \in T } }

\* Group.keys(): the names of the children, in name order
keys(tree, p) ==
    sorted({ q[Len(q)] : q \in { r \in DOMAIN tree : r /= <<>> /\ Parent(r) = p } })

\* The name property of a node: "/" for the root, "/a/b" below it
RECURSIVE NodeName(_)
NodeName(p) ==
    IF p = <<>> THEN <<"/">>
    ELSE IF Len(p) = 1 THEN <<"/">> \o p[1]
    ELSE NodeName(Parent(p)) \o <<"/">> \o p[Len(p)]

\* s.split('/')[-1]: what follows the last separator
RECURSIVE LastSegment(_)
LastSegment(s) ==
    IF s = <<>> THEN <<>>
    ELSE IF s[Len(s)] = "/" THEN <<>>
    ELSE Append(LastSegment(SubSeq(s, 1, Len(s) - 1)), s[Len(s)])

\* lines 571-572: __module__.startswith('h5py.'), a module being its dotted parts
IsH5py(module) == Len(module) > 1 /\ module[1] = "h5py"

Modules == {<<"zarr", "hierarchy">>, <<"h5py", "_hl", "group">>}

(***************************************************************************)
(* copy, copy_all, _copy                                                   *)
(***************************************************************************)
NoName == [given |-> FALSE, val |-> <<>>]
Name(n) == [given |-> TRUE, val |-> n]

CreateKws == {EmptyMap, ("chunks" :> "c7") @@ ("compression" :> "lzf")}

\* the name as it would be taken from source.name without the split
resolve_name_unsplit(name, source_name) ==
    IF ~ name.given THEN source_name ELSE name.val

\* lines 575-576: the name to copy to; line 577 raises when it is empty
resolve_name(name, source_name) ==
    IF ~ name.given THEN LastSegment(source_name) ELSE name.val

\* the keyword arguments as they would be if h5py -> h5py set no defaults
dataset_kws_h5py_unset(create_kws, node, source_h5py, dest_h5py) ==
    LET kws == SetDefault(create_kws, "chunks", node.chunks) IN
    IF source_h5py THEN kws
    ELSE IF dest_h5py
         THEN SetDefault(SetDefault(SetDefault(kws,
                  "compression", "gzip"),
                  "compression_opts", "1"),
                  "shuffle", "True")
         ELSE SetDefault(kws, "compressor", node.compressor)

\* lines 584-608: the keyword arguments of create_dataset
dataset_kws(create_kws, node, source_h5py, dest_h5py) ==
    LET kws == SetDefault(create_kws, "chunks", node.chunks) IN
    IF source_h5py
    THEN IF dest_h5py
         THEN SetDefault(SetDefault(SetDefault(kws,
                  "compression", node.compression),
                  "compression_opts", node.compression_opts),
                  "shuffle", node.shuffle)
         ELSE kws
    ELSE IF dest_h5py
         THEN SetDefault(SetDefault(SetDefault(kws,
                  "compression", "gzip"),
                  "compression_opts", "1"),
                  "shuffle", "True")
         ELSE SetDefault(kws, "compressor", node.compressor)

\* the update as it would be with its operands exchanged
copy_attrs_dest_wins(without_attrs, dest_attrs, source_attrs) ==
    IF ~ without_attrs THEN Update(source_attrs, dest_attrs) ELSE dest_attrs

\* lines 618-619, 629-630
copy_attrs(without_attrs, dest_attrs, source_attrs) ==
    IF ~ without_attrs THEN Update(dest_attrs, source_attrs) ELSE dest_attrs

\* line 621 as it would be without the shallow test
copies_group_always(root, shallow) == TRUE

\* line 621 as it would be with the root test alone
copies_group_root_only(root, shallow) == root

\* line 621: a group is copied
copies_group(root, shallow) == root \/ ~ shallow

\* the recursive calls as they would be over the keys in reverse
child_calls_reversed(tree, p, grp) ==
    LET ks == keys(tree, p) IN
    [i \in 1..Len(ks) |->
       [node |-> Append(p, ks[Len(ks) + 1 - i]), dest |-> grp,
        name |-> Name(ks[Len(ks) + 1 - i]), root |-> FALSE]]

\* lines 633-635: the recursive calls, one per child, in keys() order
child_calls(tree, p, grp) ==
    LET ks == keys(tree, p) IN
    [i \in 1..Len(ks) |->
       [node |-> Append(p, ks[i]), dest |-> grp, name |-> Name(ks[i]), root |-> FALSE]]

EmptyGroup == [kind |-> "group", attrs |-> EmptyMap, kws |-> EmptyMap, data |-> <<>>]
EmptyArray == [kind |-> "array", attrs |-> EmptyMap, kws |-> EmptyMap, data |-> <<>>]

NodeInit ==
    /\ pc = "call" /\ err = ""
    /\ fn \in {"copy", "copy_all"}
    /\ log \in LogArgs
    /\ logw = NoLogWriter
    /\ opened = 0 /\ closed = 0
    /\ emitted = <<>> /\ sinkOut = <<>>
    /\ src \in Trees
    /\ source \in { p \in DOMAIN src :
                      /\ Len(p) <= 1
                      /\ fn = "copy_all" => src[p].kind = "group" }
    /\ dest = <<>>
    /\ args \in [name : IF fn = "copy" THEN {NoName, Name(C)} ELSE {NoName},
                 shallow : BOOLEAN, without_attrs : BOOLEAN, create_kws : CreateKws]
    /\ modules \in [source : Modules, dest : Modules]
    /\ onConflict \in {"raise", "reuse"}
    /\ dst \in {(<<>> :> EmptyGroup),
                (<<>> :> EmptyGroup) @@ (<<A>> :> [EmptyGroup EXCEPT !.attrs = PriorAttrs])}
    /\ dst0 = dst
    /\ stack = <<>> /\ created = <<>> /\ again = FALSE
    /\ store = <<>> /\ store0 = <<>>
    /\ source_path = <<>> /\ dest_path = <<>>
    /\ excludes = <<>> /\ includes = <<>>
    /\ listing = <<>> /\ idx = 1
    /\ reads = <<>> /\ writes = <<>>
    /\ self_grp = <<>> /\ cache = <<>> /\ fetched = <<>> /\ first = <<>>
    /\ result = [op |-> "none"]

\* copy, lines 562-565, and copy_all, lines 737-741: enter the _LogWriter;
\* copy calls _copy on the source, copy_all on each of its children
copy_enter ==
    /\ pc = "call" /\ fn \in {"copy", "copy_all"}
    /\ UNCHANGED lazyVars
    /\ EnterWith("copy")
    /\ stack' = IF pc' /= "copy" THEN <<>>
                ELSE IF fn = "copy"
                THEN <<[node |-> source, dest |-> dest, name |-> args.name, root |-> TRUE]>>
                ELSE child_calls(src, source, dest)
    /\ UNCHANGED <<fn, storeVars, src, dst, dst0, modules, onConflict, created, again>>

\* dest.create_group(name) / dest.create_dataset(name, ...) on a free name
\* makes the node; on a taken name the destination raises or, where its
\* contract is to hand back the node of that name and kind, returns it.
CreateConflict(d, path, kind) ==
    /\ path \in DOMAIN d
    /\ onConflict = "raise" \/ d[path].kind /= kind

create_node(d, path, fresh) ==
    IF path \in DOMAIN d THEN d ELSE d @@ (path :> fresh)

\* _copy, lines 568-635: the call at the head of the pending calls
copy_node ==
    /\ pc = "copy" /\ fn \in {"copy", "copy_all"}
    /\ UNCHANGED lazyVars
    /\ stack /= <<>>
    /\ LET f == Head(stack)
           node == src[f.node]
           source_h5py == IsH5py(modules.source)
           dest_h5py == IsH5py(modules.dest)
           name == resolve_name(f.name, NodeName(f.node))
           path == Append(f.dest, name)
           line == <<NodeName(f.node), NodeName(path)>>
       IN
       IF name = <<>>
       THEN \* lines 577-579
            /\ RaiseInWith("TypeError: source has no name")
            /\ UNCHANGED <<emitted, sinkOut, dst, stack, created>>
       ELSE IF node.kind = "array"
       THEN LET kws == dataset_kws(args.create_kws, node, source_h5py, dest_h5py)
                made == create_node(dst, path, [EmptyArray EXCEPT !.kws = kws])
                call == [node |-> f.node, path |-> path, kind |-> "array", kws |-> kws]
            IN
            IF CreateConflict(dst, path, "array")
            THEN /\ RaiseInWith("Conflict")
                 /\ UNCHANGED <<emitted, sinkOut, dst, stack, created>>
            ELSE \/ \* line 614: log(...) raises
                    /\ LogWriter_call(logw) /= "nowhere"
                    /\ RaiseInWith("LogError")
                    /\ dst' = made
                    /\ created' = Append(created, call)
                    /\ UNCHANGED <<emitted, sinkOut, stack>>
                 \/ \* line 615: reading the source or writing ds raises
                    /\ Emit(line)
                    /\ RaiseInWith("IOError")
                    /\ dst' = made
                    /\ created' = Append(created, call)
                    /\ UNCHANGED stack
                 \/ /\ Emit(line)
                    /\ dst' = [made EXCEPT ![path].data = node.data,
                                           ![path].attrs =
                                               copy_attrs(args.without_attrs, @, node.attrs)]
                    /\ created' = Append(created, call)
                    /\ stack' = Tail(stack)
                    /\ UNCHANGED <<pc, err, closed>>
       ELSE IF copies_group(f.root, args.shallow)
       THEN LET made == create_node(dst, path, EmptyGroup)
                call == [node |-> f.node, path |-> path, kind |-> "group", kws |-> EmptyMap]
            IN
            IF CreateConflict(dst, path, "group")
            THEN /\ RaiseInWith("Conflict")
                 /\ UNCHANGED <<emitted, sinkOut, dst, stack, created>>
            ELSE \/ \* line 626: log(...) raises
                    /\ LogWriter_call(logw) /= "nowhere"
                    /\ RaiseInWith("LogError")
                    /\ dst' = made
                    /\ created' = Append(created, call)
                    /\ UNCHANGED <<emitted, sinkOut, stack>>
                 \/ /\ Emit(line)
                    /\ dst' = [made EXCEPT ![path].attrs =
                                               copy_attrs(args.without_attrs, @, node.attrs)]
                    /\ created' = Append(created, call)
                    /\ stack' = child_calls(src, f.node, path) \o Tail(stack)
                    /\ UNCHANGED <<pc, err, closed>>
       ELSE \* a group below the root of a shallow copy: no branch is taken
            /\ stack' = Tail(stack)
            /\ UNCHANGED <<pc, err, closed, emitted, sinkOut, dst, created>>
    /\ UNCHANGED <<fn, log, logw, opened, storeVars, src, dst0, modules, onConflict, again>>

\* every _copy call has returned: the with block is left, __exit__ runs
copy_return ==
    /\ pc = "copy" /\ fn \in {"copy", "copy_all"}
    /\ UNCHANGED lazyVars
    /\ stack = <<>>
    /\ pc' = "done"
    /\ closed' = closed + LogWriter_exit(logw)
    /\ UNCHANGED <<err, fn, log, logw, opened, emitted, sinkOut, storeVars, nodeVars>>

\* the caller issues the same call once more, on the destination as it is now
copy_again ==
    /\ pc = "done" /\ fn \in {"copy", "copy_all"}
    /\ UNCHANGED lazyVars
    /\ ~ again
    /\ again' = TRUE
    /\ pc' = "call"
    /\ logw' = NoLogWriter
    /\ opened' = 0 /\ closed' = 0
    /\ emitted' = <<>> /\ sinkOut' = <<>>
    /\ created' = <<>>
    /\ UNCHANGED <<err, fn, log, storeVars, src, dst, dst0, modules, onConflict, stack>>

NodeNext ==
    \/ copy_enter
    \/ copy_node
    \/ copy_return
    \/ copy_again

SpecNode == NodeInit /\ [][NodeNext]_vars

(***************************************************************************)
(* LazyLoader                                                              *)
(***************************************************************************)
MaxReads == 2

ArrayNames == {A, B}
Contents == {1, 2}

\* the group as it may be: some of the names, each with contents
Groups == UNION { [S -> Contents] : S \in SUBSET ArrayNames }

\* __getitem__ as it would be without line 303: nothing is kept
LazyLoader_getitem_uncached(c, g, item) ==
    IF item \in DOMAIN c
    THEN [cache |-> c, raises |-> "", val |-> c[item], read |-> FALSE]
    ELSE IF item \in DOMAIN g
    THEN [cache |-> c, raises |-> "", val |-> g[item], read |-> TRUE]
    ELSE [cache |-> c, raises |-> "KeyError", val |-> 0, read |-> FALSE]

\* LazyLoader.__getitem__, lines 298-304: the cache after the call, what it
\* returns or raises, and whether the group was read
LazyLoader_getitem(c, g, item) ==
    IF item \in DOMAIN c
    THEN [cache |-> c, raises |-> "", val |-> c[item], read |-> FALSE]
    ELSE IF item \in DOMAIN g
    THEN [cache |-> c @@ (item :> g[item]), raises |-> "", val |-> g[item], read |-> TRUE]
    ELSE [cache |-> c, raises |-> "KeyError", val |-> 0, read |-> FALSE]

\* LazyLoader.__len__, lines 306-307
LazyLoader_len(c, g) == Cardinality(DOMAIN g)

\* LazyLoader.__iter__, lines 309-310: the group's names, in its order
LazyLoader_iter(c, g) == sorted(DOMAIN g)

\* LazyLoader.__contains__, lines 312-313
LazyLoader_contains(c, g, item) == item \in DOMAIN g

\* LazyLoader.__init__, lines 294-296, as load calls it at line 352
LazyInit ==
    /\ pc = "lazy" /\ err = "" /\ fn = "load"
    /\ log = "None" /\ logw = NoLogWriter
    /\ opened = 0 /\ closed = 0
    /\ emitted = <<>> /\ sinkOut = <<>>
    /\ args = <<>>
    /\ store = <<>> /\ store0 = <<>>
    /\ source = <<>> /\ dest = <<>>
    /\ source_path = <<>> /\ dest_path = <<>>
    /\ excludes = <<>> /\ includes = <<>>
    /\ listing = <<>> /\ idx = 1
    /\ reads = <<>> /\ writes = <<>>
    /\ src = <<>> /\ dst = <<>> /\ dst0 = <<>>
    /\ modules = <<>> /\ onConflict = "raise"
    /\ stack = <<>> /\ created = <<>> /\ again = FALSE
    /\ self_grp \in Groups
    /\ cache = EmptyMap
    /\ fetched = [k \in ArrayNames |-> 0]
    /\ first = EmptyMap
    /\ result = [op |-> "none"]

\* loader[item]
lazy_getitem ==
    /\ pc = "lazy"
    /\ \E item \in ArrayNames :
         LET r == LazyLoader_getitem(cache, self_grp, item) IN
         /\ r.read => fetched[item] < MaxReads
         /\ \/ /\ cache' = r.cache
               /\ fetched' = IF r.read THEN [fetched EXCEPT ![item] = @ + 1] ELSE fetched
               /\ first' = IF r.read /\ item \notin DOMAIN first
                           THEN first @@ (item :> r.val) ELSE first
               /\ result' = [op |-> "getitem", key |-> item, raises |-> r.raises,
                             val |-> r.val]
            \/ \* line 302: reading the array raises, nothing is cached
               /\ r.read
               /\ result' = [op |-> "getitem", key |-> item, raises |-> "IOError",
                             val |-> 0]
               /\ UNCHANGED <<cache, fetched, first>>
    /\ UNCHANGED <<pc, err, fn, logVars, storeVars, nodeVars, self_grp>>

\* len(loader)
lazy_len ==
    /\ pc = "lazy"
    /\ result' = [op |-> "len", val |-> LazyLoader_len(cache, self_grp)]
    /\ UNCHANGED <<pc, err, fn, logVars, storeVars, nodeVars, self_grp, cache, fetched, first>>

\* list(loader)
lazy_iter ==
    /\ pc = "lazy"
    /\ result' = [op |-> "iter", val |-> LazyLoader_iter(cache, self_grp)]
    /\ UNCHANGED <<pc, err, fn, logVars, storeVars, nodeVars, self_grp, cache, fetched, first>>

\* item in loader
lazy_contains ==
    /\ pc = "lazy"
    /\ \E item \in ArrayNames :
         result' = [op |-> "contains", key |-> item,
                    val |-> LazyLoader_contains(cache, self_grp, item)]
    /\ UNCHANGED <<pc, err, fn, logVars, storeVars, nodeVars, self_grp, cache, fetched, first>>

\* the holder of the group puts an array into it, replaces or removes one
group_changes ==
    /\ pc = "lazy"
    /\ self_grp' \in Groups
    /\ self_grp' /= self_grp
    /\ \E k \in ArrayNames :
         \A j \in ArrayNames \ {k} :
             /\ j \in DOMAIN self_grp' <=> j \in DOMAIN self_grp
             /\ j \in DOMAIN self_grp => self_grp'[j] = self_grp[j]
    /\ result' = [op |-> "none"]
    /\ UNCHANGED <<pc, err, fn, logVars, storeVars, nodeVars, cache, fetched, first>>

LazyNext ==
    \/ lazy_getitem
    \/ lazy_len
    \/ lazy_iter
    \/ lazy_contains
    \/ group_changes

SpecLazy == LazyInit /\ [][LazyNext]_vars

Init == StoreInit \/ NodeInit \/ LazyInit

Next == StoreNext \/ NodeNext \/ LazyNext

Spec == Init /\ [][Next]_vars

(***************************************************************************)
(* Properties of copy_store                                                *)
(***************************************************************************)
StoreDone == fn = "copy_store" /\ pc = "done"

\* the key was read and written by the loop
WasCopied(K) == \E i \in 1..Len(writes) : reads[i] = K

MatchesSome(progs, K) == \E i \in 1..Len(progs) : search(progs[i], K)

\* the key the prefix remapping sends K to
Remapped(K) == dest_path \o SubSeq(K, Len(source_path) + 1, Len(K))

\* C1: when copy_store has completed, a key of the source as listed at the
\* start was copied iff it starts with the normalised source prefix and no
\* exclude pattern is found in it or some include pattern is; each copied
\* key was written once, at destPrefix + K[len(sourcePrefix):], and the
\* destination gained no other key.
C1_CopiedIffPrefixAndFilter ==
    StoreDone =>
        /\ \A K \in DOMAIN store0[source] :
             WasCopied(K) <=>
                 /\ StartsWith(K, source_path)
                 /\ ~ MatchesSome(excludes, K) \/ MatchesSome(includes, K)
        /\ Len(reads) = Len(writes)
        /\ \A i, j \in 1..Len(reads) : reads[i] = reads[j] => i = j
        /\ \A i \in 1..Len(writes) : writes[i][1] = Remapped(reads[i])
        /\ DOMAIN store[dest] =
               DOMAIN store0[dest] \cup { Remapped(reads[i]) : i \in 1..Len(reads) }

\* a copy under a non-empty prefix in which a key matching both an exclude
\* and an include pattern was copied and a key under the prefix was dropped
C1_Witness ==
    /\ StoreDone
    /\ source_path /= <<>>
    /\ \E K \in DOMAIN store0[source] :
         WasCopied(K) /\ MatchesSome(excludes, K) /\ MatchesSome(includes, K)
    /\ \E K \in DOMAIN store0[source] : StartsWith(K, source_path) /\ ~ WasCopied(K)

\* C2 as stated: when copy_store has completed, the destination holds at
\* destKey(K) the value the source held at K when the call started, for
\* every copied K and whatever stores were passed.
C2_VerbatimForAnyHandles ==
    StoreDone =>
        \A i \in 1..Len(reads) :
            store[dest][Remapped(reads[i])] = store0[source][reads[i]]

\* C2 amended: the same, for every copied K that no earlier iteration of
\* the call has written to (which takes dest to be the source store).
C2_VerbatimUnlessOverwritten ==
    StoreDone =>
        \A i \in 1..Len(reads) :
            \/ dest = source /\ \E j \in 1..(i - 1) : Remapped(reads[j]) = reads[i]
            \/ store[dest][Remapped(reads[i])] = store0[source][reads[i]]

\* a copy within one store and a copy over a key the destination held
C2_Witness ==
    /\ StoreDone
    /\ Len(writes) >= 2
    /\ \/ dest = source
       \/ \E i \in 1..Len(writes) : writes[i][1] \in DOMAIN store0[dest]

(***************************************************************************)
(* Properties of copy and copy_all                                         *)
(***************************************************************************)
NodeCall == fn \in {"copy", "copy_all"}
NodeDone == NodeCall /\ pc = "done"

\* the name the root of a copy call is copied to
TargetName == IF args.name.given THEN args.name.val ELSE source[Len(source)]

\* the source path q relative to the source handle
Relative(q) == SubSeq(q, Len(source) + 1, Len(q))

\* where the node at source path q belongs in the destination
DestOf(q) == IF fn = "copy" THEN <<TargetName>> \o Relative(q) ELSE Relative(q)

\* the source nodes the call is about: the source handle's subtree, without
\* the handle itself for copy_all
InCall(q) ==
    /\ q \in DOMAIN src
    /\ StartsWith(q, source)
    /\ fn = "copy_all" => q /= source

IsCallRoot(q) == fn = "copy" /\ q = source

\* the create calls made for groups that are not the root of the call
NonRootGroupsCreated ==
    { i \in 1..Len(created) : created[i].kind = "group" /\ ~ IsCallRoot(created[i].node) }

C4_NonShallowIsomorphic ==
    (NodeDone /\ fn = "copy" /\ ~ args.shallow /\ DOMAIN dst0 = {<<>>}
              /\ src[source].kind = "group") =>
        /\ \A q \in DOMAIN src :
             InCall(q) => /\ DestOf(q) \in DOMAIN dst
                          /\ dst[DestOf(q)].kind = src[q].kind
        /\ DOMAIN dst = {<<>>} \cup { DestOf(q) : q \in { r \in DOMAIN src : InCall(r) } }
        /\ \A q, r \in DOMAIN src :
             (InCall(q) /\ InCall(r) /\ DestOf(q) = DestOf(r)) => q = r

\* a completed non-shallow copy of a subtree three levels deep
C4_Witness ==
    /\ NodeDone /\ fn = "copy" /\ ~ args.shallow /\ DOMAIN dst0 = {<<>>}
    /\ src[source].kind = "group"
    /\ \E q \in DOMAIN src : InCall(q) /\ Len(Relative(q)) = 2 /\ src[q].kind = "array"
    /\ \E q \in DOMAIN src : InCall(q) /\ Len(Relative(q)) = 1 /\ src[q].kind = "group"

\* the source nodes a completed call copies
CopiedNodes ==
    { q \in DOMAIN src :
        /\ InCall(q)
        /\ args.shallow => \/ IsCallRoot(q)
                           \/ Len(Relative(q)) = 1 /\ src[q].kind = "array" }

\* the attributes the destination held at P before the first call
PriorAt(P) == IF P \in DOMAIN dst0 THEN dst0[P].attrs ELSE EmptyMap

\* C5: once a copy with attribute-copy enabled has completed, and through
\* and after a second issue of the same call, each copied node's destination
\* attributes are the prior destination attributes united with the source
\* attributes, the source value standing on every shared name.
C5_AttrsMergedAndIdempotent ==
    (NodeCall /\ ~ args.without_attrs /\ (pc = "done" \/ again)) =>
        \A q \in CopiedNodes :
            LET got == dst[DestOf(q)].attrs
                prior == PriorAt(DestOf(q))
                from == src[q].attrs
            IN  /\ DOMAIN got = DOMAIN prior \cup DOMAIN from
                /\ \A k \in DOMAIN got :
                     got[k] = IF k \in DOMAIN from THEN from[k] ELSE prior[k]

\* the second copy of a group has completed onto a destination group that
\* held attributes of its own, one of them under a name the source also has
C5_Witness ==
    /\ NodeDone /\ again /\ ~ args.without_attrs
    /\ \E q \in CopiedNodes :
         /\ src[q].kind = "group"
         /\ DestOf(q) \in DOMAIN dst0
         /\ \E k \in DOMAIN dst0[DestOf(q)].attrs :
              k \in DOMAIN src[q].attrs /\ dst0[DestOf(q)].attrs[k] /= src[q].attrs[k]
         /\ \E k \in DOMAIN dst0[DestOf(q)].attrs : k \notin DOMAIN src[q].attrs

\* the create_dataset calls made so far
LeavesCreated == { i \in 1..Len(created) : created[i].kind = "array" }

SourceIsForeign == modules.source[1] = "h5py"
DestIsForeign == modules.dest[1] = "h5py"

\* kws is the caller's overrides, then the source's chunks, then defaults,
\* each given only to a name that the ones before left unset
AddsDefaults(kws, node, defaults) ==
    /\ DOMAIN kws = DOMAIN args.create_kws \cup {"chunks"} \cup DOMAIN defaults
    /\ \A k \in DOMAIN kws :
         kws[k] = IF k \in DOMAIN args.create_kws THEN args.create_kws[k]
                  ELSE IF k = "chunks" THEN src[node].chunks
                  ELSE defaults[k]

GzipDefaults ==
    ("compression" :> "gzip") @@ ("compression_opts" :> "1") @@ ("shuffle" :> "True")

\* C6 as stated: the compression defaults a leaf's creation gets are
\* native->native the source's compressor, foreign->native none,
\* native->foreign gzip at level 1 with shuffle, foreign->foreign none.
C6_DefaultsForeignToForeignNone ==
    NodeCall =>
        \A i \in LeavesCreated :
            LET kws == created[i].kws
                node == created[i].node
            IN  CASE ~ SourceIsForeign /\ ~ DestIsForeign ->
                        AddsDefaults(kws, node, "compressor" :> src[node].compressor)
                  [] SourceIsForeign /\ ~ DestIsForeign ->
                        AddsDefaults(kws, node, EmptyMap)
                  [] ~ SourceIsForeign /\ DestIsForeign ->
                        AddsDefaults(kws, node, GzipDefaults)
                  [] OTHER ->
                        AddsDefaults(kws, node, EmptyMap)

\* C6 amended: the same, but foreign->foreign adds the source leaf's
\* compression, compression_opts and shuffle.
C6_DefaultsByImplementationPair ==
    NodeCall =>
        \A i \in LeavesCreated :
            LET kws == created[i].kws
                node == created[i].node
            IN  CASE ~ SourceIsForeign /\ ~ DestIsForeign ->
                        AddsDefaults(kws, node, "compressor" :> src[node].compressor)
                  [] SourceIsForeign /\ ~ DestIsForeign ->
                        AddsDefaults(kws, node, EmptyMap)
                  [] ~ SourceIsForeign /\ DestIsForeign ->
                        AddsDefaults(kws, node, GzipDefaults)
                  [] OTHER ->
                        AddsDefaults(kws, node,
                            ("compression" :> src[node].compression)
                            @@ ("compression_opts" :> src[node].compression_opts)
                            @@ ("shuffle" :> src[node].shuffle))

\* a leaf was created foreign->foreign for a caller who gave a compression
\* but no compression_opts
C6_Witness ==
    /\ NodeCall /\ SourceIsForeign /\ DestIsForeign
    /\ "compression" \in DOMAIN args.create_kws
    /\ \E i \in LeavesCreated :
         /\ created[i].kws["compression"] = args.create_kws["compression"]
         /\ created[i].kws["compression_opts"] = src[created[i].node].compression_opts

\* C7: every leaf is created with the caller's chunks when the caller gave
\* any and with its own source leaf's chunks otherwise, and with every
\* other creation parameter of the caller's as the caller gave it.
C7_ChunksDefaultNeverOverrides ==
    NodeCall =>
        \A i \in LeavesCreated :
            /\ "chunks" \in DOMAIN created[i].kws
            /\ created[i].kws["chunks"] =
                   IF "chunks" \in DOMAIN args.create_kws
                   THEN args.create_kws["chunks"]
                   ELSE src[created[i].node].chunks
            /\ \A k \in DOMAIN args.create_kws :
                   k \in DOMAIN created[i].kws /\ created[i].kws[k] = args.create_kws[k]

\* two leaves of one call, at different depths, got different chunks, each
\* its own source's
C7_Witness ==
    /\ NodeCall
    /\ \E i, j \in LeavesCreated :
         /\ Len(created[i].node) < Len(created[j].node)
         /\ created[i].kws["chunks"] = src[created[i].node].chunks
         /\ created[j].kws["chunks"] = src[created[j].node].chunks
         /\ created[i].kws["chunks"] /= created[j].kws["chunks"]

(***************************************************************************)
(* Properties of the three entry points                                    *)
(***************************************************************************)
Exited == pc \in {"done", "raised"}

\* C8: when a call has exited, normally or by an exception, the log handle
\* has been closed once if _LogWriter opened it from a path (one handle was
\* then opened) and never otherwise; no close precedes the exit.
C8_ClosesOnlyItsOwnHandleOnce ==
    /\ opened = (IF logw.needs_closing THEN 1 ELSE 0)
    /\ opened = 1 => log = "path"
    /\ log \in {"file", "callable"} => closed = 0
    /\ closed = (IF Exited /\ opened = 1 THEN 1 ELSE 0)

\* a call that had emitted a line to the file it opened was aborted by an
\* exception and the file is closed
C8_Witness ==
    /\ pc = "raised" /\ log = "path"
    /\ opened = 1 /\ closed = 1
    /\ sinkOut /= <<>>
    /\ err \in {"ReadError", "WriteError", "IOError", "Conflict"}

IsPrefix(s, t) == Len(s) <= Len(t) /\ SubSeq(t, 1, Len(s)) = s

\* The lines of a complete node copy, by recursion over the source: the
\* line of the node at q, copied to destination path d, then the lines of
\* its children in keys() order.
RECURSIVE PreOrderLines(_, _, _), ChildrenLines(_, _, _)
PreOrderLines(q, d, root) ==
    IF src[q].kind = "array" THEN << <<NodeName(q), NodeName(d)>> >>
    ELSE IF root \/ ~ args.shallow
    THEN << <<NodeName(q), NodeName(d)>> >> \o ChildrenLines(q, d, keys(src, q))
    ELSE <<>>
ChildrenLines(q, d, ks) ==
    IF ks = <<>> THEN <<>>
    ELSE PreOrderLines(Append(q, Head(ks)), Append(d, Head(ks)), FALSE)
             \o ChildrenLines(q, d, Tail(ks))

\* the lines a complete call of copy or copy_all emits
ExpectedNodeLines ==
    IF fn = "copy"
    THEN IF ~ args.name.given /\ source = <<>> THEN <<>>
         ELSE PreOrderLines(source, <<TargetName>>, TRUE)
    ELSE ChildrenLines(source, <<>>, keys(src, source))

\* the keys of the lines emitted so far
EmittedKeys == [i \in 1..Len(emitted) |-> emitted[i][1]]

\* C9: the lines passed to the sink within one call are, for copy_store,
\* one per copied key in ascending key order and none for another key; for
\* copy and copy_all, one per copied node in pre-order of the source, a
\* prefix of that sequence until the call completes.  A sink that is not
\* disabled has delivered exactly these lines, in this order.
C9_LinesFollowTraversalOrder ==
    /\ fn = "copy_store" =>
         /\ \A i, j \in 1..Len(emitted) : i < j => StrLess(EmittedKeys[i], EmittedKeys[j])
         /\ \A i \in 1..Len(emitted) :
              /\ emitted[i][2] = Remapped(emitted[i][1])
              /\ emitted[i][1] \in DOMAIN store0[source]
              /\ StartsWith(emitted[i][1], source_path)
              /\ ~ MatchesSome(excludes, emitted[i][1]) \/ MatchesSome(includes, emitted[i][1])
         /\ \A i \in 1..Len(writes) : i <= Len(emitted) /\ emitted[i][1] = reads[i]
         /\ Len(emitted) <= Len(writes) + 1
         /\ pc = "done" =>
              /\ Len(emitted) = Len(writes)
              /\ \A K \in DOMAIN store0[source] :
                   (/\ StartsWith(K, source_path)
                    /\ ~ MatchesSome(excludes, K) \/ MatchesSome(includes, K))
                       => \E i \in 1..Len(emitted) : emitted[i][1] = K
    /\ NodeCall =>
         /\ IsPrefix(emitted, ExpectedNodeLines)
         /\ pc = "done" => emitted = ExpectedNodeLines
         /\ Len(emitted) <= Len(created)
         /\ \A i \in 1..Len(emitted) :
              emitted[i] = <<NodeName(created[i].node), NodeName(created[i].path)>>
    /\ sinkOut = IF LogWriter_call(logw) = "nowhere" THEN <<>>
                 ELSE [i \in 1..Len(emitted) |->
                         [to |-> LogWriter_call(logw), line |-> emitted[i]]]

\* a completed copy of a group with two children, the first of them a
\* group with a child of its own, delivered four lines to a callback
C9_Witness ==
    /\ NodeDone /\ log = "callable" /\ ~ args.shallow
    /\ Len(sinkOut) >= 4
    /\ \E q \in DOMAIN src :
         /\ Len(keys(src, q)) = 2
         /\ keys(src, Append(q, keys(src, q)[1])) /= <<>>
         /\ InCall(Append(q, keys(src, q)[1]))
         /\ InCall(Append(q, keys(src, q)[2]))

\* C10: copy of the unnamed root with no name given raises the TypeError
\* for the missing name with the destination untouched, no create call and
\* no line; with a name given that error is not raised, and the completed
\* call has copied the root to that name.
C10_UnnamedRootNeedsName ==
    (fn = "copy" /\ source = <<>>) =>
        IF args.name.given
        THEN /\ err /= "TypeError: source has no name"
             /\ pc = "done" =>
                  /\ <<args.name.val>> \in DOMAIN dst
                  /\ created /= <<>>
                  /\ created[1].node = <<>> /\ created[1].path = <<args.name.val>>
        ELSE /\ pc /= "done"
             /\ dst = dst0 /\ created = <<>> /\ emitted = <<>> /\ sinkOut = <<>>
             /\ pc = "raised" =>
                  \/ err = "TypeError: source has no name"
                  \/ log = "other" /\ err = "TypeError"
                  \/ log = "path" /\ opened = 0 /\ err = "IOError"

\* the call was refused for the missing name after the log file was opened
C10_Witness ==
    /\ fn = "copy" /\ source = <<>> /\ ~ args.name.given
    /\ pc = "raised" /\ err = "TypeError: source has no name"
    /\ opened = 1 /\ closed = 1

(***************************************************************************)
(* copy_store: failures and the key listing                                *)
(***************************************************************************)
\* K is a key of the source at the start that the prefix and the filter keep
Kept(K) ==
    /\ K \in DOMAIN store0[source]
    /\ StartsWith(K, source_path)
    /\ ~ MatchesSome(excludes, K) \/ MatchesSome(includes, K)

\* the value dest holds at k after the writes made so far
AfterWrites(k) ==
    IF \E i \in 1..Len(writes) : writes[i][1] = k
    THEN LET last == CHOOSE i \in 1..Len(writes) :
                         /\ writes[i][1] = k
                         /\ \A j \in 1..Len(writes) : writes[j][1] = k => j <= i
         IN  writes[last][2]
    ELSE store0[dest][k]

\* C12: a read or write that fails at an eligible key ends the call with
\* that very error; the keys written are exactly the eligible keys sorted
\* before it, each once, nothing is read after it, and the destination is
\* its state before the call with those writes applied.
C12_FailureAbortsAfterEarlierWrites ==
    (fn = "copy_store" /\ err \in {"ReadError", "WriteError"}) =>
        /\ pc = "raised"
        /\ emitted /= <<>>
        /\ LET failed == emitted[Len(emitted)][1] IN
           /\ Kept(failed)
           /\ Len(writes) = Len(emitted) - 1
           /\ { writes[i][1] : i \in 1..Len(writes) } =
                  { Remapped(K) : K \in { J \in DOMAIN store0[source] :
                                            Kept(J) /\ StrLess(J, failed) } }
           /\ Len(writes) = Cardinality({ writes[i][1] : i \in 1..Len(writes) })
           /\ reads = [i \in 1..Len(reads) |-> emitted[i][1]]
           /\ Len(reads) = IF err = "ReadError" THEN Len(writes) ELSE Len(writes) + 1
           /\ DOMAIN store[dest] =
                  DOMAIN store0[dest] \cup { writes[i][1] : i \in 1..Len(writes) }
           /\ \A k \in DOMAIN store[dest] : store[dest][k] = AfterWrites(k)

\* the write of the second eligible key failed, the first write stands and
\* an eligible key sorted after the second was left alone
C12_Witness ==
    /\ fn = "copy_store" /\ pc = "raised" /\ err = "WriteError"
    /\ Len(writes) = 1
    /\ store[dest] /= store0[dest]
    /\ \E K \in DOMAIN store0[source] :
         Kept(K) /\ StrLess(emitted[Len(emitted)][1], K)

\* C13: the loop runs over the keys the source held when the listing was
\* taken, before any write: every key read is one of them, read once, so
\* there are never more writes than the source had keys at the start, and a
\* key the call itself added to the source is never copied.
C13_ListingTakenOnceBeforeWrites ==
    fn = "copy_store" =>
        /\ pc \in {"call", "keys"} => writes = <<>>
        /\ pc \in {"loop", "done"} => listing = sorted(DOMAIN store0[source])
        /\ \A i \in 1..Len(reads) : reads[i] \in DOMAIN store0[source]
        /\ \A i, j \in 1..Len(reads) : reads[i] = reads[j] => i = j
        /\ Len(writes) <= Cardinality(DOMAIN store0[source])
        /\ idx <= Len(listing) + 1
        /\ pc = "done" =>
             \A K \in DOMAIN store[source] \ DOMAIN store0[source] : ~ WasCopied(K)

\* a completed copy within one store, to a prefix under the source prefix,
\* that added to the source a key the prefix and the filter would keep
C13_Witness ==
    /\ StoreDone /\ dest = source
    /\ source_path /= <<>> /\ StartsWith(dest_path, source_path)
    /\ \E K \in DOMAIN store[source] \ DOMAIN store0[source] :
         /\ StartsWith(K, source_path)
         /\ ~ MatchesSome(excludes, K) \/ MatchesSome(includes, K)

(***************************************************************************)
(* Properties of LazyLoader                                                *)
(***************************************************************************)
\* C11: under any sequence of getitem, len, iteration and contains, mixed
\* with changes of the group, a name's array is read from the group (by a
\* read that returns) at most once; the cache holds exactly the names so
\* read, each with what that first read returned, and a getitem that
\* returns gives that value; len, iteration and contains return what the
\* group holds now, whatever the cache holds, and leave the cache as it is.
C11_ReadOnceThenCachedOthersLive ==
    fn = "load" =>
        /\ \A k \in ArrayNames : fetched[k] <= 1
        /\ DOMAIN cache = { k \in ArrayNames : fetched[k] = 1 }
        /\ DOMAIN first = DOMAIN cache
        /\ \A k \in DOMAIN cache : cache[k] = first[k]
        /\ (result.op = "getitem" /\ result.raises = "") =>
               /\ result.key \in DOMAIN first
               /\ result.val = first[result.key]
        /\ (result.op = "getitem" /\ result.raises = "KeyError") =>
               result.key \notin DOMAIN self_grp \cup DOMAIN cache
        /\ result.op = "len" =>
               result.val = Cardinality(DOMAIN self_grp)
        /\ result.op = "iter" =>
               /\ { result.val[i] : i \in 1..Len(result.val) } = DOMAIN self_grp
               /\ \A i, j \in 1..Len(result.val) : result.val[i] = result.val[j] => i = j
        /\ result.op = "contains" => (result.val <=> result.key \in DOMAIN self_grp)

\* a getitem returned what its first read had cached although the group
\* now holds other contents under that name, and another name was read and
\* cached and has since left the group
C11_Witness ==
    /\ fn = "load"
    /\ result.op = "getitem" /\ result.raises = ""
    /\ result.key \in DOMAIN self_grp
    /\ self_grp[result.key] /= result.val
    /\ \E k \in DOMAIN cache : k \notin DOMAIN self_grp

====
